---- MODULE Spec2Model ----
(***************************************************************************)
(* node-jsonl-storage: the queue-coordinated NodeJsonlStorage class        *)
(* (src/src/index.ts lines 11-233) as a state machine.                     *)
(*                                                                         *)
(* Scheduling is Node's: one JavaScript thread.  A call runs synchronously *)
(* up to its first await.  `await this.waitForWrite()` always yields: when *)
(* isWriteStreamBusy is false the continuation is queued as a microtask    *)
(* (FIFO), otherwise the call polls on a 5 ms timer.  Stream events (the   *)
(* read stream's data and end) are macrotasks and run only when the        *)
(* microtask queue is empty.  fs.WriteStream writes are performed by the   *)
(* thread pool after write() returned: the program never waits for the     *)
(* temp stream's 'finish', so a flush may follow the rename.               *)
(*                                                                         *)
(* A file is the sequence of its lines; readline yields a last line with   *)
(* or without its terminating newline, so the newline that line 206 leaves *)
(* out is not part of the state.                                           *)
(***************************************************************************)
EXTENDS Naturals, Integers, Sequences, FiniteSets, TLC

\* ---------------------------------------------------------------- bounds
MaxCalls == 3
MaxSeqCalls == 4

Keys == {"a", "b"}
SeqKeys == {"a", "b", "c"}
\* JavaScript values by their literal; "0" is the falsy one.
Items == {"0", "1"}
SeqItems == {"1"}
Indexes == {0, 1, 2}

\* ----------------------------------------------------------- record codec
Undefined == "undefined"
NoField == "(omitted)"
\* A line that JSON.parse rejects (also what a hole in a file reads as).
Malformed == [key |-> "(bad)", data |-> "(bad)"]

Falsy == {"0", "false", "null", "''", "NaN", Undefined}

Truthy(v) == v \notin Falsy

\* JSON.stringify({ key, data }): undefined drops the field, NaN becomes null.
JSONstringify(k, v) ==
    [key |-> k,
     data |-> IF v = Undefined THEN NoField ELSE IF v = "NaN" THEN "null" ELSE v]

IsMalformed(line) == line = Malformed

\* JSON.parse(line) of a line that parses: json.key and json.data.
JSONparse(line) ==
    [key |-> line.key,
     data |-> IF line.data = NoField THEN Undefined ELSE line.data]

\* ------------------------------------------------------------ file system
NoIno == 0 - 1
CallIds == 1 .. (IF MaxCalls > MaxSeqCalls THEN MaxCalls ELSE MaxSeqCalls)
\* The store file of the constructor is inode 0; a file created by call c is inode c.
Inodes == {0} \cup CallIds

VARIABLES
    isWriteStreamBusy, isRemoveItemBusy, isSetItemBusy,
    setItemQueue, removeItemQueue,
    dir,        \* path -> inode: "path" is this.path, "temp" the -temp.jsonl file
    disk,       \* inode -> the lines on disk
    wstreams,   \* call -> its fs.WriteStream: inode, offset, buffered writes
    calls,      \* the calls issued so far, in issue order
    microtasks, \* continuations queued by an await that did not have to wait
    crashed     \* an exception reached the top of the event loop

vars == <<isWriteStreamBusy, isRemoveItemBusy, isSetItemBusy, setItemQueue,
          removeItemQueue, dir, disk, wstreams, calls, microtasks, crashed>>

flags == <<isWriteStreamBusy, isRemoveItemBusy, isSetItemBusy>>
queues == <<setItemQueue, removeItemQueue>>
fs == <<dir, disk, wstreams>>

NoStream == [ino |-> NoIno, pos |-> 0, buf |-> <<>>, ended |-> FALSE]

\* An inode no path and no open stream refers to is freed.
Reclaim(d, dr, ws) ==
    [i \in Inodes |->
        IF i = dr.path \/ i = dr.temp \/ (\E c \in CallIds : ws[c].ino = i)
        THEN d[i] ELSE <<>>]

\* fs.write at a stream's own offset; a gap reads back as garbage.
WriteAt(content, pos, buf) ==
    LET padded == IF Len(content) >= pos THEN content
                  ELSE content \o [i \in 1 .. (pos - Len(content)) |-> Malformed]
        n == IF Len(padded) > pos + Len(buf) THEN Len(padded) ELSE pos + Len(buf)
    IN  [i \in 1 .. n |->
            IF i > pos /\ i <= pos + Len(buf) THEN buf[i - pos] ELSE padded[i]]

\* ------------------------------------------------------------------ reads
RECURSIVE getItemScan(_, _)
\* getItem's line handler: parse each line, stop at the first match.
getItemScan(lines, k) ==
    IF lines = <<>> THEN [threw |-> FALSE, found |-> Undefined]
    ELSE IF IsMalformed(Head(lines)) THEN [threw |-> TRUE, found |-> Undefined]
    ELSE IF JSONparse(Head(lines)).key = k
         THEN [threw |-> FALSE, found |-> JSONparse(Head(lines)).data]
         ELSE getItemScan(Tail(lines), k)

RECURSIVE keyScan(_, _, _)
\* key's line handler: count lines, parse only the one at keyIndex.
keyScan(lines, keyIndex, index) ==
    IF lines = <<>> THEN [threw |-> FALSE, found |-> Undefined]
    ELSE IF keyIndex = index + 1
         THEN IF IsMalformed(Head(lines))
              THEN [threw |-> TRUE, found |-> Undefined]
              ELSE [threw |-> FALSE, found |-> JSONparse(Head(lines)).key]
         ELSE keyScan(Tail(lines), keyIndex, index + 1)

RECURSIVE keysScan(_, _)
\* keys' line handler: push every parsed key.
keysScan(lines, acc) ==
    IF lines = <<>> THEN [threw |-> FALSE, found |-> acc]
    ELSE IF IsMalformed(Head(lines)) THEN [threw |-> TRUE, found |-> acc]
    ELSE keysScan(Tail(lines), Append(acc, JSONparse(Head(lines)).key))

RECURSIVE lengthScan(_, _)
\* length's line handler: index++ for every line, nothing is parsed.
lengthScan(lines, index) ==
    IF lines = <<>> THEN [threw |-> FALSE, found |-> index]
    ELSE lengthScan(Tail(lines), index + 1)

RECURSIVE iterateScan(_, _)
\* iterate's line handler: iteratorCallback(json.data, json.key) per line.
iterateScan(lines, acc) ==
    IF lines = <<>> THEN [threw |-> FALSE, found |-> acc]
    ELSE IF IsMalformed(Head(lines)) THEN [threw |-> TRUE, found |-> acc]
    ELSE iterateScan(Tail(lines),
             Append(acc, <<JSONparse(Head(lines)).data, JSONparse(Head(lines)).key>>))

getItem(lines, k) == getItemScan(lines, k)
key(lines, keyIndex) == keyScan(lines, keyIndex, 0)
keys(lines) == keysScan(lines, <<>>)
length(lines) == lengthScan(lines, 0)
iterate(lines) == iterateScan(lines, <<>>)

ReadOps == {"getItem", "key", "keys", "length", "iterate"}

\* The outcome of read call c on the lines its stream delivers.
ReadOutcome(c, lines) ==
    CASE c.op = "getItem" -> getItem(lines, c.key)
      [] c.op = "key" -> key(lines, c.index)
      [] c.op = "keys" -> keys(lines)
      [] c.op = "length" -> length(lines)
      [] OTHER -> iterate(lines)

\* ------------------------------------------------------- the rewrite pass
\* Map.prototype.set: a new key goes last, a known key keeps its place.
MapSet(m, k, v) ==
    IF \E i \in 1 .. Len(m) : m[i].key = k
    THEN [i \in 1 .. Len(m) |-> IF m[i].key = k THEN [key |-> k, item |-> v] ELSE m[i]]
    ELSE Append(m, [key |-> k, item |-> v])

\* Map.prototype.get: undefined for a key the map does not hold.
MapGet(m, k) ==
    IF \E i \in 1 .. Len(m) : m[i].key = k
    THEN (CHOOSE e \in {m[i] : i \in 1 .. Len(m)} : e.key = k).item
    ELSE Undefined

\* Map.prototype.delete.
MapDelete(m, k) == SelectSeq(m, LAMBDA e : e.key # k)

RECURSIVE MapOf(_, _)
\* new Map(queue.map(({ key, item }) => [key, item])), line 190.
MapOf(queue, m) ==
    IF queue = <<>> THEN m
    ELSE MapOf(Tail(queue), MapSet(m, Head(queue).key, Head(queue).item))

\* if (queueItem), line 195.
PatchTest(queueItem) == Truthy(queueItem)

RECURSIVE SetLines(_, _, _)
\* The set pass's line handler (lines 192-201) over the lines of one read:
\* the lines written to the temp stream and what is left of queueMap.
SetLines(lines, queueMap, out) ==
    IF lines = <<>> THEN [threw |-> FALSE, out |-> out, queueMap |-> queueMap]
    ELSE IF IsMalformed(Head(lines))
         THEN [threw |-> TRUE, out |-> out, queueMap |-> queueMap]
    ELSE LET json == JSONparse(Head(lines))
             queueItem == MapGet(queueMap, json.key)
         IN  IF PatchTest(queueItem)
             THEN SetLines(Tail(lines), MapDelete(queueMap, json.key),
                           Append(out, JSONstringify(json.key, queueItem)))
             ELSE SetLines(Tail(lines), queueMap, Append(out, Head(lines)))

\* A close handler that appends nothing.
SetTailNone(queueMap) == <<>>

\* The set pass's close handler (lines 203-207): the entries left in queueMap,
\* stringified, in the map's order.
SetTail(queueMap) ==
    [i \in 1 .. Len(queueMap) |-> JSONstringify(queueMap[i].key, queueMap[i].item)]

\* queue.includes(json.key), line 161.
Includes(queue, k) == \E i \in 1 .. Len(queue) : queue[i] = k

RECURSIVE RemoveLines(_, _, _)
\* The remove pass's line handler (lines 159-164).
RemoveLines(lines, queue, out) ==
    IF lines = <<>> THEN [threw |-> FALSE, out |-> out]
    ELSE IF IsMalformed(Head(lines)) THEN [threw |-> TRUE, out |-> out]
    ELSE IF Includes(queue, JSONparse(Head(lines)).key)
         THEN RemoveLines(Tail(lines), queue, out)
         ELSE RemoveLines(Tail(lines), queue, Append(out, Head(lines)))

Min(x, y) == IF x < y THEN x ELSE y

\* Array.prototype.splice(0, deleteCount): the elements it returns.
Splice(queue, deleteCount) == SubSeq(queue, 1, Min(deleteCount, Len(queue)))

\* Array.prototype.splice(0, deleteCount): what stays in the array.
SpliceRest(queue, deleteCount) ==
    SubSeq(queue, Min(deleteCount, Len(queue)) + 1, Len(queue))

\* ------------------------------------------------------------------ state
MutationOps == {"setItem", "removeItem", "clear"}

Settled == {"returned", "rejected"}

NewCall(op, k, v, i) ==
    [op |-> op, key |-> k, item |-> v, index |-> i, pc |-> "called",
     queue |-> <<>>, queueMap |-> <<>>, seen |-> <<>>,
     \* every line the call handed to tempFileStream.write
     wrote |-> <<>>,
     \* history, read by the properties only: the calls whose outcome the
     \* caller can have awaited (settled, and every continuation queued
     \* before has run), and the calls still pending
     prior |-> IF microtasks = <<>>
               THEN {c \in DOMAIN calls : calls[c].pc \in Settled} ELSE {},
     pending |-> {c \in DOMAIN calls : calls[c].pc \notin Settled},
     \* and the passes between their drain and their swap at that moment
     active |-> {c \in DOMAIN calls : calls[c].op \in {"setItem", "removeItem"}
                                        /\ calls[c].pc \in {"opened", "piped"}},
     busyAtOpen |-> FALSE, whole |-> TRUE]

Init ==
    /\ isWriteStreamBusy = FALSE
    /\ isRemoveItemBusy = FALSE
    /\ isSetItemBusy = FALSE
    /\ setItemQueue = <<>>
    /\ removeItemQueue = <<>>
    /\ dir = [path |-> 0, temp |-> NoIno]
    /\ disk = [i \in Inodes |-> <<>>]
    /\ wstreams = [c \in CallIds |-> NoStream]
    /\ calls = <<>>
    /\ microtasks = <<>>
    /\ crashed = FALSE

\* `await this.waitForWrite()` at the point of the call: the flag is read once,
\* and the continuation is queued or the call starts polling.
waitForWrite(c) ==
    IF isWriteStreamBusy
    THEN /\ calls' = Append(calls, [c EXCEPT !.pc = "waiting"])
         /\ UNCHANGED microtasks
    ELSE /\ calls' = Append(calls, [c EXCEPT !.pc = "ready"])
         /\ microtasks' = Append(microtasks, Len(calls) + 1)

\* ---------------------------------------------------------------- calls
\* setItem up to its first await (lines 218-223).
CallSetItem(max, k, v) ==
    /\ ~crashed
    /\ Len(calls) < max
    /\ setItemQueue' = Append(setItemQueue, [key |-> k, item |-> v])
    /\ IF isSetItemBusy
       THEN /\ calls' = Append(calls, [NewCall("setItem", k, v, 0) EXCEPT !.pc = "returned"])
            /\ UNCHANGED <<isSetItemBusy, microtasks>>
       ELSE /\ isSetItemBusy' = TRUE
            /\ waitForWrite(NewCall("setItem", k, v, 0))
    /\ UNCHANGED <<isWriteStreamBusy, isRemoveItemBusy, removeItemQueue, fs, crashed>>

\* removeItem up to its first await (lines 139-144).
CallRemoveItem(max, k) ==
    /\ ~crashed
    /\ Len(calls) < max
    /\ removeItemQueue' = Append(removeItemQueue, k)
    /\ IF isRemoveItemBusy
       THEN /\ calls' = Append(calls, [NewCall("removeItem", k, Undefined, 0) EXCEPT !.pc = "returned"])
            /\ UNCHANGED <<isRemoveItemBusy, microtasks>>
       ELSE /\ isRemoveItemBusy' = TRUE
            /\ waitForWrite(NewCall("removeItem", k, Undefined, 0))
    /\ UNCHANGED <<isWriteStreamBusy, isSetItemBusy, setItemQueue, fs, crashed>>

\* A pass is between its drain and its swap.
PassActive(c) ==
    /\ c \in DOMAIN calls
    /\ calls[c].op \in {"setItem", "removeItem"}
    /\ calls[c].pc \in {"opened", "piped"}

PassInFlight == \E c \in DOMAIN calls : PassActive(c)

\* A clear that recreated the file with the old lines still in it.
ClearedFileKept(old) == old

\* unlinkSync(this.path); appendFileSync(this.path, ''): the new file's lines.
ClearedFile(old) == <<>>

\* The file at this.path has every write of its temp stream on disk.
Flushed == \A c \in CallIds : wstreams[c].ino = dir.path => wstreams[c].buf = <<>>

\* clear (lines 30-35): synchronous, no wait.  unlinkSync throws when the
\* file is missing, and then the flag stays set.
clear(max) ==
    /\ ~crashed
    /\ Len(calls) < max
    /\ IF dir.path = NoIno
       THEN /\ isWriteStreamBusy' = TRUE
            /\ calls' = Append(calls, [NewCall("clear", "", Undefined, 0) EXCEPT
                                        !.pc = "rejected", !.busyAtOpen = PassInFlight])
            /\ UNCHANGED fs
       ELSE /\ isWriteStreamBusy' = FALSE
            /\ calls' = Append(calls, [NewCall("clear", "", Undefined, 0) EXCEPT
                                        !.pc = "returned", !.seen = disk[dir.path],
                                        !.busyAtOpen = PassInFlight])
            /\ dir' = [dir EXCEPT !.path = Len(calls) + 1]
            /\ disk' = Reclaim([disk EXCEPT ![Len(calls) + 1] = ClearedFile(disk[dir.path])],
                               dir', wstreams)
            /\ UNCHANGED wstreams
    /\ UNCHANGED <<isRemoveItemBusy, isSetItemBusy, queues, microtasks, crashed>>

\* getItem, key, keys, length, iterate up to their await (lines 38, 61, 80, 104, 123).
CallRead(max, op, k, i) ==
    /\ ~crashed
    /\ Len(calls) < max
    /\ waitForWrite(NewCall(op, k, Undefined, i))
    /\ UNCHANGED <<flags, queues, fs, crashed>>

\* What runs when waitForWrite has returned: a mutation sets the flag,
\* creates its two streams and drains its queue in the promise executor
\* (lines 145-157, 224 and 179-190); a read creates its stream.
Continue(c) ==
    /\ calls[c].pc \in {"ready", "waiting"}
    /\ CASE calls[c].op = "setItem" ->
              /\ isWriteStreamBusy' = TRUE
              /\ setItemQueue' = SpliceRest(setItemQueue, Len(setItemQueue) + 1)
              /\ calls' = [calls EXCEPT ![c].pc = "opened",
                         ![c].queue = Splice(setItemQueue, Len(setItemQueue) + 1),
                         ![c].queueMap = MapOf(Splice(setItemQueue, Len(setItemQueue) + 1), <<>>)]
              /\ UNCHANGED <<isRemoveItemBusy, isSetItemBusy, removeItemQueue>>
         [] calls[c].op = "removeItem" ->
              /\ isWriteStreamBusy' = TRUE
              /\ removeItemQueue' = SpliceRest(removeItemQueue, Len(removeItemQueue) + 1)
              /\ calls' = [calls EXCEPT ![c].pc = "opened",
                         ![c].queue = Splice(removeItemQueue, Len(removeItemQueue) + 1)]
              /\ UNCHANGED <<isRemoveItemBusy, isSetItemBusy, setItemQueue>>
         [] OTHER ->
              /\ calls' = [calls EXCEPT ![c].pc = "opened",
                                        ![c].busyAtOpen = isWriteStreamBusy]
              /\ UNCHANGED <<flags, queues>>
    /\ UNCHANGED <<fs, crashed>>

\* The next microtask: the continuation of a call whose waitForWrite
\* returned at once.  The flag is not read again.
RunMicrotask ==
    /\ ~crashed
    /\ microtasks # <<>>
    /\ Continue(Head(microtasks))
    /\ microtasks' = Tail(microtasks)

\* waitForWrite's timer (line 27) finds the flag clear; the continuation
\* runs in the same macrotask.
Wake(c) ==
    /\ ~crashed
    /\ microtasks = <<>>
    /\ c \in DOMAIN calls
    /\ calls[c].pc = "waiting"
    /\ ~isWriteStreamBusy
    /\ Continue(c)
    /\ UNCHANGED microtasks

\* ------------------------------------------------------------ I/O events
\* The lines a pass writes for the lines of its read stream.
PassLines(c, lines) ==
    IF calls[c].op = "setItem"
    THEN SetLines(lines, calls[c].queueMap, <<>>)
    ELSE [threw |-> RemoveLines(lines, calls[c].queue, <<>>).threw,
          out |-> RemoveLines(lines, calls[c].queue, <<>>).out,
          queueMap |-> <<>>]

\* createWriteStream(tempPath) opens with O_CREAT | O_TRUNC: a temp file that
\* is there is emptied and shared, else call c creates it.
OpenTemp(c) == IF dir.temp = NoIno THEN c ELSE dir.temp

\* A pass's streams open and its read stream delivers the file: the 'line'
\* handler runs for every line and the writes are buffered by the temp
\* stream.  A missing file ('error' with no listener) and a line JSON.parse
\* rejects (a throw inside the 'line' listener) are uncaught exceptions.
PassRead(c) ==
    /\ ~crashed
    /\ microtasks = <<>>
    /\ c \in DOMAIN calls
    /\ calls[c].op \in {"setItem", "removeItem"}
    /\ calls[c].pc = "opened"
    /\ IF dir.path = NoIno
       THEN /\ crashed' = TRUE
            /\ calls' = [calls EXCEPT ![c].pc = "uncaught"]
            /\ UNCHANGED fs
       ELSE LET r == PassLines(c, disk[dir.path])
            IN  /\ dir' = [dir EXCEPT !.temp = OpenTemp(c)]
                /\ wstreams' = [wstreams EXCEPT ![c] =
                        [ino |-> OpenTemp(c), pos |-> 0, buf |-> r.out, ended |-> FALSE]]
                /\ disk' = [disk EXCEPT ![OpenTemp(c)] = <<>>]
                /\ crashed' = r.threw
                /\ calls' = [calls EXCEPT
                        ![c].pc = IF r.threw THEN "uncaught" ELSE "piped",
                        ![c].queueMap = r.queueMap,
                        ![c].wrote = r.out,
                        ![c].seen = disk[dir.path],
                        ![c].whole = Flushed]
    /\ UNCHANGED <<flags, queues, microtasks>>

\* The temp stream after tempFileStream.end(): closed once nothing is buffered.
EndStream(w) == IF w.buf = <<>> THEN NoStream ELSE [w EXCEPT !.ended = TRUE]

\* unlinkSync(this.path); renameSync(tempPath, this.path): the directory
\* afterwards, and whether one of the two threw ENOENT.
Swap(dr) ==
    IF dr.path = NoIno THEN [threw |-> TRUE, dir |-> dr]
    ELSE IF dr.temp = NoIno THEN [threw |-> TRUE, dir |-> [dr EXCEPT !.path = NoIno]]
    ELSE [threw |-> FALSE, dir |-> [path |-> dr.temp, temp |-> NoIno]]

\* The read stream ends: the 'close' handler writes what is left of queueMap
\* and ends the temp stream (lines 165-168, 202-210), then the continuation
\* swaps the files and clears the flags (lines 171-175, 213-214, 228-229).
\* A throw of unlinkSync or renameSync rejects the call and clears nothing.
PassEnd(c) ==
    /\ ~crashed
    /\ microtasks = <<>>
    /\ c \in DOMAIN calls
    /\ calls[c].op \in {"setItem", "removeItem"}
    /\ calls[c].pc = "piped"
    /\ wstreams' = [wstreams EXCEPT ![c] =
            EndStream([@ EXCEPT !.buf = @ \o SetTail(calls[c].queueMap)])]
    /\ dir' = Swap(dir).dir
    /\ disk' = Reclaim(disk, dir', wstreams')
    /\ IF Swap(dir).threw
       THEN /\ calls' = [calls EXCEPT ![c].pc = "rejected",
                                        ![c].wrote = @ \o SetTail(calls[c].queueMap)]
            /\ UNCHANGED flags
       ELSE /\ calls' = [calls EXCEPT ![c].pc = "returned", ![c].queueMap = <<>>,
                                        ![c].wrote = @ \o SetTail(calls[c].queueMap)]
            /\ isWriteStreamBusy' = FALSE
            /\ isSetItemBusy' = IF calls[c].op = "setItem" THEN FALSE ELSE isSetItemBusy
            /\ isRemoveItemBusy' = IF calls[c].op = "removeItem" THEN FALSE ELSE isRemoveItemBusy
    /\ UNCHANGED <<queues, microtasks, crashed>>

\* The thread pool performs the buffered writes of c's temp stream, at the
\* stream's offset in whatever file the descriptor refers to by now.
Flush(c) ==
    /\ ~crashed
    /\ wstreams[c].ino # NoIno
    /\ wstreams[c].buf # <<>>
    /\ wstreams' = [wstreams EXCEPT ![c] =
            IF @.ended THEN NoStream
            ELSE [@ EXCEPT !.pos = @ + Len(wstreams[c].buf), !.buf = <<>>]]
    /\ disk' = Reclaim([disk EXCEPT ![wstreams[c].ino] =
                            WriteAt(@, wstreams[c].pos, wstreams[c].buf)],
                       dir, wstreams')
    /\ UNCHANGED <<flags, queues, dir, calls, microtasks, crashed>>

\* A read's stream opens this.path and delivers what is on disk; its 'line'
\* handler runs for every line and 'close' resolves the call.
ReadFile(c) ==
    /\ ~crashed
    /\ microtasks = <<>>
    /\ c \in DOMAIN calls
    /\ calls[c].op \in ReadOps
    /\ calls[c].pc = "opened"
    /\ IF dir.path = NoIno
       THEN /\ crashed' = TRUE
            /\ calls' = [calls EXCEPT ![c].pc = "uncaught"]
       ELSE /\ crashed' = ReadOutcome(calls[c], disk[dir.path]).threw
            /\ calls' = [calls EXCEPT
                    ![c].pc = IF ReadOutcome(calls[c], disk[dir.path]).threw
                              THEN "uncaught" ELSE "returned",
                    ![c].seen = disk[dir.path],
                    ![c].whole = Flushed]
    /\ UNCHANGED <<flags, queues, fs, microtasks>>

\* ---------------------------------------------------------- specifications
\* Any client: calls are issued at any point, awaited or not.
Next ==
    \/ \E k \in Keys, v \in Items : CallSetItem(MaxCalls, k, v)
    \/ \E k \in Keys : CallRemoveItem(MaxCalls, k)
    \/ clear(MaxCalls)
    \/ \E k \in Keys : CallRead(MaxCalls, "getItem", k, 0)
    \/ \E i \in Indexes : CallRead(MaxCalls, "key", "", i)
    \/ \E op \in {"keys", "length", "iterate"} : CallRead(MaxCalls, op, "", 0)
    \/ RunMicrotask
    \/ \E c \in CallIds : Wake(c)
    \/ \E c \in CallIds : PassRead(c)
    \/ \E c \in CallIds : PassEnd(c)
    \/ \E c \in CallIds : Flush(c)
    \/ \E c \in CallIds : ReadFile(c)

Spec == Init /\ [][Next]_vars

\* A client that awaits every call before it issues the next one.
AllSettled == microtasks = <<>> /\ \A c \in DOMAIN calls : calls[c].pc \in Settled

NextSeq ==
    \/ \E k \in SeqKeys, v \in SeqItems : AllSettled /\ CallSetItem(MaxSeqCalls, k, v)
    \/ \E k \in SeqKeys : AllSettled /\ CallRemoveItem(MaxSeqCalls, k)
    \/ AllSettled /\ clear(MaxSeqCalls)
    \/ \E k \in SeqKeys : AllSettled /\ CallRead(MaxSeqCalls, "getItem", k, 0)
    \/ \E i \in Indexes : AllSettled /\ CallRead(MaxSeqCalls, "key", "", i)
    \/ \E op \in {"keys", "length", "iterate"} : AllSettled /\ CallRead(MaxSeqCalls, op, "", 0)
    \/ RunMicrotask
    \/ \E c \in CallIds : PassRead(c)
    \/ \E c \in CallIds : PassEnd(c)
    \/ \E c \in CallIds : Flush(c)
    \/ \E c \in CallIds : ReadFile(c)

SpecSeq == Init /\ [][NextSeq]_vars

\* A store file found at construction (line 23 keeps an existing file) that
\* holds a line JSON.parse rejects.
MaxFaultCalls == 2

FaultFiles ==
    { <<Malformed>>,
      <<JSONstringify("a", "1"), Malformed>>,
      <<JSONstringify("a", "1")>> }

InitFault ==
    /\ isWriteStreamBusy = FALSE
    /\ isRemoveItemBusy = FALSE
    /\ isSetItemBusy = FALSE
    /\ setItemQueue = <<>>
    /\ removeItemQueue = <<>>
    /\ dir = [path |-> 0, temp |-> NoIno]
    /\ \E f \in FaultFiles : disk = [i \in Inodes |-> IF i = 0 THEN f ELSE <<>>]
    /\ wstreams = [c \in CallIds |-> NoStream]
    /\ calls = <<>>
    /\ microtasks = <<>>
    /\ crashed = FALSE

NextFault ==
    \/ \E k \in Keys, v \in Items : CallSetItem(MaxFaultCalls, k, v)
    \/ \E k \in Keys : CallRemoveItem(MaxFaultCalls, k)
    \/ clear(MaxFaultCalls)
    \/ \E k \in Keys : CallRead(MaxFaultCalls, "getItem", k, 0)
    \/ \E i \in Indexes : CallRead(MaxFaultCalls, "key", "", i)
    \/ \E op \in {"keys", "length", "iterate"} : CallRead(MaxFaultCalls, op, "", 0)
    \/ RunMicrotask
    \/ \E c \in CallIds : Wake(c)
    \/ \E c \in CallIds : PassRead(c)
    \/ \E c \in CallIds : PassEnd(c)
    \/ \E c \in CallIds : Flush(c)
    \/ \E c \in CallIds : ReadFile(c)

SpecFault == InitFault /\ [][NextFault]_vars

\* Any client of a one-key store that reads with keys() and length() only.
MaxClearCalls == 3

ClearKeys == {"a"}

NextClear ==
    \/ \E k \in ClearKeys, v \in Items : CallSetItem(MaxClearCalls, k, v)
    \/ \E k \in ClearKeys : CallRemoveItem(MaxClearCalls, k)
    \/ clear(MaxClearCalls)
    \/ \E op \in {"keys", "length"} : CallRead(MaxClearCalls, op, "", 0)
    \/ RunMicrotask
    \/ \E c \in CallIds : Wake(c)
    \/ \E c \in CallIds : PassRead(c)
    \/ \E c \in CallIds : PassEnd(c)
    \/ \E c \in CallIds : Flush(c)
    \/ \E c \in CallIds : ReadFile(c)

SpecClear == Init /\ [][NextClear]_vars

\* A store file found at construction (line 23 keeps an existing file) whose
\* lines are well-formed records with unique keys, and a client that issues
\* mutations only, awaited or not.
MaxPassCalls == 2

StoreFiles ==
    { <<>>,
      <<JSONstringify("a", "1")>>,
      <<JSONstringify("b", "0"), JSONstringify("a", "1")>> }

InitPass ==
    /\ isWriteStreamBusy = FALSE
    /\ isRemoveItemBusy = FALSE
    /\ isSetItemBusy = FALSE
    /\ setItemQueue = <<>>
    /\ removeItemQueue = <<>>
    /\ dir = [path |-> 0, temp |-> NoIno]
    /\ \E f \in StoreFiles : disk = [i \in Inodes |-> IF i = 0 THEN f ELSE <<>>]
    /\ wstreams = [c \in CallIds |-> NoStream]
    /\ calls = <<>>
    /\ microtasks = <<>>
    /\ crashed = FALSE

NextPass ==
    \/ \E k \in Keys, v \in Items : CallSetItem(MaxPassCalls, k, v)
    \/ \E k \in Keys : CallRemoveItem(MaxPassCalls, k)
    \/ clear(MaxPassCalls)
    \/ RunMicrotask
    \/ \E c \in CallIds : Wake(c)
    \/ \E c \in CallIds : PassRead(c)
    \/ \E c \in CallIds : PassEnd(c)
    \/ \E c \in CallIds : Flush(c)

SpecPass == InitPass /\ [][NextPass]_vars

\* Any client under the event loop's scheduling: a queued microtask runs, a
\* 5 ms timer that finds the flag clear fires, a stream delivers its file
\* and ends, the thread pool performs a buffered write.  Issuing a call is
\* up to the client and is not fair.
MaxLiveCalls == 3

LiveKeys == {"a", "b"}

NextLive ==
    \/ \E k \in LiveKeys, v \in SeqItems : CallSetItem(MaxLiveCalls, k, v)
    \/ \E k \in LiveKeys : CallRemoveItem(MaxLiveCalls, k)
    \/ clear(MaxLiveCalls)
    \/ \E op \in {"keys", "length"} : CallRead(MaxLiveCalls, op, "", 0)
    \/ RunMicrotask
    \/ \E c \in CallIds : Wake(c)
    \/ \E c \in CallIds : PassRead(c)
    \/ \E c \in CallIds : PassEnd(c)
    \/ \E c \in CallIds : Flush(c)
    \/ \E c \in CallIds : ReadFile(c)

Fairness ==
    /\ WF_vars(RunMicrotask)
    /\ \A c \in CallIds :
          /\ WF_vars(Wake(c))
          /\ WF_vars(PassRead(c))
          /\ WF_vars(PassEnd(c))
          /\ WF_vars(Flush(c))
          /\ WF_vars(ReadFile(c))

SpecLive == Init /\ [][NextLive]_vars /\ Fairness

\* A client that awaits every call, over falsy and truthy items.
MaxPairCalls == 3

NextPair ==
    \/ \E k \in Keys, v \in Items : AllSettled /\ CallSetItem(MaxPairCalls, k, v)
    \/ \E k \in Keys : AllSettled /\ CallRemoveItem(MaxPairCalls, k)
    \/ AllSettled /\ clear(MaxPairCalls)
    \/ \E k \in Keys : AllSettled /\ CallRead(MaxPairCalls, "getItem", k, 0)
    \/ \E i \in Indexes : AllSettled /\ CallRead(MaxPairCalls, "key", "", i)
    \/ \E op \in {"keys", "length", "iterate"} : AllSettled /\ CallRead(MaxPairCalls, op, "", 0)
    \/ RunMicrotask
    \/ \E c \in CallIds : PassRead(c)
    \/ \E c \in CallIds : PassEnd(c)
    \/ \E c \in CallIds : Flush(c)
    \/ \E c \in CallIds : ReadFile(c)

SpecPair == Init /\ [][NextPair]_vars

\* ------------------------------------------------------------ properties
\* The lines of the store file (none when the file is missing).
File == IF dir.path = NoIno THEN <<>> ELSE disk[dir.path]

CountKey(lines, k) == Cardinality({i \in 1 .. Len(lines) : lines[i].key = k})

IsRead(c) == calls[c].op \in ReadOps

Returned(c) == calls[c].pc = "returned"

\* Call m changes what is stored under k.
MutatesKey(m, k) ==
    \/ calls[m].op = "clear"
    \/ calls[m].op \in {"setItem", "removeItem"} /\ calls[m].key = k

\* No read so far, of a pass or of a read call, met a file whose writes were
\* still buffered, and the store file is completely on disk now.
Clean == Flushed /\ \A c \in DOMAIN calls : calls[c].whole

\* C1: at every point at most one rewrite pass is between its drain and its
\* unlink+rename swap.
C1_AtMostOneRewrite == Cardinality({c \in DOMAIN calls : PassActive(c)}) <= 1

\* C2: once setItem(k, v) has resolved, a getItem(k) issued afterwards, with
\* no later mutation of k, returns v.  (Stated for the case that every
\* earlier mutation of k had settled before the setItem was issued and the
\* read met a completely written file.)
C2_RoundTrip ==
    \A s \in DOMAIN calls : \A r \in DOMAIN calls :
        ( /\ calls[s].op = "setItem" /\ Returned(s)
          /\ calls[r].op = "getItem" /\ Returned(r)
          /\ calls[r].key = calls[s].key
          /\ s \in calls[r].prior
          /\ calls[r].whole
          /\ \A m \in DOMAIN calls :
                MutatesKey(m, calls[s].key) /\ m # s => m < s /\ m \in calls[s].prior )
        => getItem(calls[r].seen, calls[r].key).found = calls[s].item

\* C3: awaiting setItem(k, v1) and then setItem(k, v2) leaves exactly one
\* record for k, carrying v2, and length() is what it was before the second
\* call.  (Stated for two setItem calls that are the only mutations issued.)
C3_IdempotentOverwrite ==
    \A s1 \in DOMAIN calls : \A s2 \in DOMAIN calls :
        ( /\ calls[s1].op = "setItem" /\ calls[s2].op = "setItem"
          /\ calls[s1].key = calls[s2].key
          /\ s1 \in calls[s2].prior
          /\ Returned(s1) /\ Returned(s2)
          /\ \A m \in DOMAIN calls : m \notin {s1, s2} => IsRead(m)
          /\ Clean )
        => /\ CountKey(File, calls[s2].key) = 1
           /\ getItem(File, calls[s2].key).found = calls[s2].item
           /\ length(File).found = length(calls[s2].seen).found

\* C4: for distinct keys, a setItem(k2, v2) issued before setItem(k1, v1) has
\* resolved is persisted too: once both have resolved and no pass is in
\* flight the file holds both records and length() counts both.  (Stated for
\* an empty store and these two mutations only.)
C4_ConcurrentBatching ==
    \A s1 \in DOMAIN calls : \A s2 \in DOMAIN calls :
        ( /\ calls[s1].op = "setItem" /\ calls[s2].op = "setItem"
          /\ s1 < s2
          /\ calls[s1].key # calls[s2].key
          /\ s1 \in calls[s2].pending
          /\ Returned(s1) /\ Returned(s2)
          /\ ~PassInFlight
          /\ \A m \in DOMAIN calls : m \notin {s1, s2} => IsRead(m)
          /\ Clean )
        => /\ getItem(File, calls[s1].key).found = calls[s1].item
           /\ getItem(File, calls[s2].key).found = calls[s2].item
           /\ length(File).found = 2

\* C5: after an awaited removeItem(k) of a key with exactly one record, the
\* next read finds k absent, one record less, and every other record.
C5_Deletion ==
    \A x \in DOMAIN calls : \A r \in DOMAIN calls :
        ( /\ calls[x].op = "removeItem" /\ Returned(x)
          /\ calls[x].whole
          /\ CountKey(calls[x].seen, calls[x].key) = 1
          /\ r = x + 1 /\ IsRead(r) /\ Returned(r) )
        => /\ getItem(calls[r].seen, calls[x].key).found = Undefined
           /\ length(calls[r].seen).found = length(calls[x].seen).found - 1
           /\ \A k \in SeqKeys \ {calls[x].key} :
                getItem(calls[r].seen, k) = getItem(calls[x].seen, k)

\* C6: clear never runs while a rewrite pass is in flight, and once a clear
\* and every mutation issued before it have completed the store is empty.
C6_ClearExcludes ==
    \A c \in DOMAIN calls :
        calls[c].op = "clear" =>
            /\ ~calls[c].busyAtOpen
            /\ ( /\ Returned(c)
                 /\ \A m \in DOMAIN calls : m > c => IsRead(m)
                 /\ \A m \in DOMAIN calls : calls[m].pc \in Settled
                 /\ Clean )
               => File = <<>>

\* C7: a read never creates its stream while the in-flight indicator is set,
\* never meets a missing file, and never reads a file whose temp stream has
\* writes still to flush.
C7_ReadersSeeWholeStates ==
    \A r \in DOMAIN calls :
        IsRead(r) =>
            /\ ~calls[r].busyAtOpen
            /\ calls[r].pc # "uncaught"
            /\ calls[r].whole

\* A clear that was issued when every earlier call had settled.
ClearedQuiescent(c) ==
    /\ calls[c].op = "clear"
    /\ Returned(c)
    /\ calls[c].prior = 1 .. (c - 1)

\* C8: after a clear() issued in a quiescent state, and as long as no
\* mutation follows, the file exists and is empty, and length() and keys()
\* return 0 and the empty sequence.
C8_ClearPostcondition ==
    \A c \in DOMAIN calls :
        (ClearedQuiescent(c) /\ \A m \in DOMAIN calls : m > c => IsRead(m))
        => /\ dir.path # NoIno
           /\ disk[dir.path] = <<>>
           /\ \A r \in DOMAIN calls :
                (r > c /\ Returned(r)) =>
                    /\ length(calls[r].seen).found = 0
                    /\ keys(calls[r].seen).found = <<>>

\* C8 witness: a store that held a record was cleared and length() ran after.
C8_Witness ==
    \E c \in DOMAIN calls : \E r \in DOMAIN calls :
        /\ ClearedQuiescent(c)
        /\ calls[c].seen # <<>>
        /\ r > c /\ calls[r].op = "length" /\ Returned(r)

\* C9: key(i) is the i-th element of keys() for 1 <= i <= length() and absent
\* otherwise; and after awaiting setItem for three distinct new keys, with no
\* removal, keys() returns them in that order.
C9_PositionalConsistency ==
    /\ \A i \in (0 - 1) .. (Len(File) + 1) :
          key(File, i).found =
              IF 1 <= i /\ i <= length(File).found THEN keys(File).found[i] ELSE Undefined
    /\ ( /\ Len(calls) = 4
         /\ \A s \in 1 .. 3 : calls[s].op = "setItem"
         /\ Cardinality({calls[s].key : s \in 1 .. 3}) = 3
         /\ calls[4].op = "keys" /\ Returned(4) )
       => keys(calls[4].seen).found = <<calls[1].key, calls[2].key, calls[3].key>>

\* C10: a rewrite pass that meets a fault before its swap leaves the store
\* file as it was and its call returns an error to the caller.
C10_NoSwapOnFailure ==
    \A c \in DOMAIN calls :
        (calls[c].op \in {"setItem", "removeItem"} /\ calls[c].pc \in {"uncaught", "rejected"})
        => /\ calls[c].pc = "rejected"
           /\ dir.path # NoIno
           /\ disk[dir.path] = calls[c].seen

\* The read met a line JSON.parse rejects: any line for iterate and keys, a
\* line before the first record of its key for getItem.
MetMalformed(r) ==
    /\ calls[r].op \in {"getItem", "iterate", "keys"}
    /\ calls[r].pc \notin {"called", "ready", "waiting", "opened"}
    /\ ReadOutcome(calls[r], calls[r].seen).threw

\* C11: a getItem, iterate or keys that meets a malformed line ends in an
\* error delivered to its caller: its promise is rejected, it neither returns
\* a normal result nor stays unsettled.
C11_MalformedLine ==
    \A r \in DOMAIN calls : MetMalformed(r) => calls[r].pc = "rejected"

\* Pass c has reached its swap: it drained a batch and its call has settled.
Swapped(c) ==
    /\ calls[c].op \in {"setItem", "removeItem"}
    /\ calls[c].queue # <<>>
    /\ calls[c].pc \in Settled

\* The item of the entry for k that was enqueued last.
LastItem(queue, k) ==
    queue[CHOOSE i \in 1 .. Len(queue) :
            /\ queue[i].key = k
            /\ \A j \in 1 .. Len(queue) : queue[j].key = k => j <= i].item

\* Every entry of the batch is in the lines the pass wrote: a set entry as a
\* record of its key (carrying the item enqueued last for that key), a
\* removal key by the absence of every line of that key.
BatchApplied(c) ==
    IF calls[c].op = "setItem"
    THEN \A e \in 1 .. Len(calls[c].queue) :
            \E i \in 1 .. Len(calls[c].wrote) :
                calls[c].wrote[i] =
                    JSONstringify(calls[c].queue[e].key,
                                  LastItem(calls[c].queue, calls[c].queue[e].key))
    ELSE \A e \in 1 .. Len(calls[c].queue) :
            CountKey(calls[c].wrote, calls[c].queue[e]) = 0

\* The step is the drain of pass c: it takes the whole queue of its kind.
DrainsAll(c) ==
    (c \in DOMAIN calls /\ calls[c].pc \in {"ready", "waiting"} /\ calls'[c].pc = "opened")
    => /\ calls[c].op = "setItem" =>
            (calls'[c].queue = setItemQueue /\ setItemQueue' = <<>>)
       /\ calls[c].op = "removeItem" =>
            (calls'[c].queue = removeItemQueue /\ removeItemQueue' = <<>>)

EnqueuedDuringPass(s) ==
    /\ s \in DOMAIN calls
    /\ calls[s].op \in {"setItem", "removeItem"}
    /\ Returned(s)
    /\ calls[s].queue = <<>>
    /\ \E d \in calls[s].active : calls[d].op = calls[s].op

\* The entry of call s, as its queue holds it.
EntryOf(s) ==
    IF calls[s].op = "setItem"
    THEN [key |-> calls[s].key, item |-> calls[s].item]
    ELSE calls[s].key

\* A pass that drained after s was issued took the entry of s and has swapped.
AppliedLater(s) ==
    \E c \in DOMAIN calls :
        /\ s \in DOMAIN calls
        /\ c # s
        /\ c \notin calls[s].active
        /\ (c > s \/ c \in calls[s].pending)
        /\ calls[c].op = calls[s].op
        /\ Swapped(c)
        /\ \E i \in 1 .. Len(calls[c].queue) : calls[c].queue[i] = EntryOf(s)

\* A mutation call was issued after s, or the run has met a fault.
MutationAfter(s) ==
    \/ \E m \in DOMAIN calls : m > s /\ ~IsRead(m)
    \/ crashed
    \/ \E m \in DOMAIN calls : calls[m].pc = "rejected"

\* C13: an entry enqueued while a pass of its kind is active is eventually
\* applied to the file by a following pass, under fair scheduling, unless a
\* further mutation call is issued.
C13_NoStrandedMutation ==
    \A s \in CallIds :
        EnqueuedDuringPass(s) ~> (AppliedLater(s) \/ MutationAfter(s))

\* setItem call s returned at line 220 because isSetItemBusy was set.
EarlyReturn(s) ==
    /\ calls[s].op = "setItem"
    /\ Returned(s)
    /\ calls[s].queue = <<>>

\* C14: whenever a setItem call returns immediately because isSetItemBusy is
\* set, a set pass was in flight whose drain was still to come, the batch
\* that pass drains holds the call's entry, and the lines the pass has
\* written when its driver resolves hold a record of the call's key.
C14_EarlyReturnCovered ==
    \A s \in DOMAIN calls :
        EarlyReturn(s) =>
            \E d \in calls[s].pending :
                /\ calls[d].op = "setItem"
                /\ d \notin calls[s].active
                /\ calls[d].pc \in {"opened", "piped", "returned"} =>
                      \E i \in 1 .. Len(calls[d].queue) : calls[d].queue[i] = EntryOf(s)
                /\ Returned(d) => CountKey(calls[d].wrote, calls[s].key) >= 1

\* The lines are well-formed records with at most one record per key.
UniqueKeys(lines) ==
    \A i \in 1 .. Len(lines) :
        /\ ~IsMalformed(lines[i])
        /\ CountKey(lines, lines[i].key) = 1

\* The batch of pass c holds several entries for key k.
SeveralEntries(c, k) ==
    Cardinality({i \in 1 .. Len(calls[c].queue) : calls[c].queue[i].key = k}) >= 2

\* C15: when the batch of a set pass holds several entries for one key, the
\* lines that pass wrote (from a file with unique keys) hold exactly one
\* record for that key, carrying the item of the entry enqueued last.
C15_LastWriteWins ==
    \A c \in DOMAIN calls : \A k \in Keys :
        ( /\ calls[c].op = "setItem" /\ Swapped(c)
          /\ UniqueKeys(calls[c].seen)
          /\ SeveralEntries(c, k) )
        => /\ CountKey(calls[c].wrote, k) = 1
           /\ getItem(calls[c].wrote, k).found = LastItem(calls[c].queue, k)

\* C16: starting from a store file with unique keys, whenever no rewrite
\* pass is in flight and every write has reached the disk, the store file
\* holds at most one line per key.
C16_KeyUniqueness ==
    (~PassInFlight /\ Flushed /\ ~crashed)
    => \A k \in Keys : CountKey(File, k) <= 1

\* The batch of pass c holds an entry for key k.
InBatch(c, k) == \E i \in 1 .. Len(calls[c].queue) : calls[c].queue[i].key = k

\* The record a set pass writes for key k of its batch.
BatchRecord(c, k) == JSONstringify(k, LastItem(calls[c].queue, k))

\* C17: a set pass (on a file with unique keys) never removes a line, leaves
\* every line whose key is not in its batch unchanged at its position,
\* rewrites every line whose key is in the batch at that line's position, and
\* appends after the old lines exactly the records of the batch keys the
\* old file did not hold.
C17_SetPassFrame ==
    \A c \in DOMAIN calls :
        (calls[c].op = "setItem" /\ Swapped(c) /\ UniqueKeys(calls[c].seen))
        => /\ Len(calls[c].wrote) >= Len(calls[c].seen)
           /\ \A i \in 1 .. Len(calls[c].seen) :
                 calls[c].wrote[i] =
                     IF InBatch(c, calls[c].seen[i].key)
                     THEN BatchRecord(c, calls[c].seen[i].key)
                     ELSE calls[c].seen[i]
           /\ \A i \in (Len(calls[c].seen) + 1) .. Len(calls[c].wrote) :
                 /\ InBatch(c, calls[c].wrote[i].key)
                 /\ CountKey(calls[c].seen, calls[c].wrote[i].key) = 0
                 /\ calls[c].wrote[i] = BatchRecord(c, calls[c].wrote[i].key)
           /\ \A k \in Keys :
                 (InBatch(c, k) /\ CountKey(calls[c].seen, k) = 0)
                 => CountKey(calls[c].wrote, k) = 1

\* No call is pending: every call issued has settled.
NoCallPending == AllSettled

\* C18: without decode faults, whenever no call is pending the three flags
\* are false, and under fair scheduling every call issued eventually returns.
C18_FlagsReleased ==
    /\ []((NoCallPending /\ ~crashed)
            => (~isWriteStreamBusy /\ ~isSetItemBusy /\ ~isRemoveItemBusy))
    /\ \A c \in CallIds :
          (c \in DOMAIN calls) ~> (crashed \/ (c \in DOMAIN calls /\ Returned(c)))

\* C19: at every yield point a file exists at the store path.
C19_FileAlwaysExists == dir.path # NoIno

\* ------------------------------------------- the uncoordinated class
RECURSIVE UncoordinatedSetLines(_, _, _, _, _)
\* setItem of the second class (lines 386-404): every line of the key is
\* replaced by the new record; the record is appended when none was.
UncoordinatedSetLines(lines, k, v, updated, out) ==
    IF lines = <<>>
    THEN [threw |-> FALSE,
          out |-> IF updated THEN out ELSE Append(out, JSONstringify(k, v))]
    ELSE IF IsMalformed(Head(lines)) THEN [threw |-> TRUE, out |-> out]
    ELSE IF JSONparse(Head(lines)).key = k
         THEN UncoordinatedSetLines(Tail(lines), k, v, TRUE,
                                    Append(out, JSONstringify(k, v)))
         ELSE UncoordinatedSetLines(Tail(lines), k, v, updated,
                                    Append(out, Head(lines)))

RECURSIVE UncoordinatedRemoveLines(_, _, _)
\* removeItem of the second class (lines 359-370).
UncoordinatedRemoveLines(lines, k, out) ==
    IF lines = <<>> THEN [threw |-> FALSE, out |-> out]
    ELSE IF IsMalformed(Head(lines)) THEN [threw |-> TRUE, out |-> out]
    ELSE IF JSONparse(Head(lines)).key = k
         THEN UncoordinatedRemoveLines(Tail(lines), k, out)
         ELSE UncoordinatedRemoveLines(Tail(lines), k, Append(out, Head(lines)))

\* The file the second class leaves when call c, awaited, has completed on a
\* file holding lines (clear: lines 253-256; the reads change nothing).
UncoordinatedApply(lines, c) ==
    CASE c.op = "setItem" -> UncoordinatedSetLines(lines, c.key, c.item, FALSE, <<>>).out
      [] c.op = "removeItem" -> UncoordinatedRemoveLines(lines, c.key, <<>>).out
      [] c.op = "clear" -> <<>>
      [] OTHER -> lines

\* The result of a read of the second class (lines 258-347: the handlers of
\* the first class without the wait).
UncoordinatedRead(c, lines) == ReadOutcome(c, lines)

RECURSIVE UncoordinatedFile(_)
\* The file of a store of the second class, created empty, after the first n
\* calls of the history, each awaited.
UncoordinatedFile(n) ==
    IF n = 0 THEN <<>> ELSE UncoordinatedApply(UncoordinatedFile(n - 1), calls[n])

\* C20: on a history in which each call is awaited before the next is issued
\* (and every stream met completely written files), every read of the
\* coordinated class returns what the uncoordinated class returns, and after
\* every call the two files hold the same records in the same order.
C20_ImplementationsAgree ==
    /\ \A r \in DOMAIN calls :
          (IsRead(r) /\ Returned(r) /\ \A c \in 1 .. r : calls[c].whole)
          => ReadOutcome(calls[r], calls[r].seen).found
                 = UncoordinatedRead(calls[r], UncoordinatedFile(r - 1)).found
    /\ (AllSettled /\ Clean /\ ~crashed) => File = UncoordinatedFile(Len(calls))

====
